---------------------------- MODULE Spec2Model ----------------------------
(***************************************************************************)
(* Model of RM4HealthAnalytics (src/analytics.py): an engine constructed   *)
(* over a list of schema-free records that offers five analyses, each a    *)
(* function of the stored list.                                            *)
(*                                                                         *)
(* Values.  A Python scalar is a record [tag, n, s]:                       *)
(*   tag = "int"   : the integer n                                         *)
(*   tag = "float" : the float n / 10 (the model's floats are tenths)      *)
(*   tag = "str"   : the string whose characters are the sequence s        *)
(*   tag = "none"  : None                                                  *)
(* A record of the input is a function from the field names it holds to    *)
(* values, as a dict is; a field that is missing is outside its DOMAIN.    *)
(* Results of numpy's mean and median and of Python's true division are    *)
(* exact rationals [num, den] in lowest terms.                             *)
(***************************************************************************)
EXTENDS Integers, Sequences, FiniteSets, TLC

VARIABLES data, processed_data, call, result, groups

vars == <<data, processed_data, call, result, groups>>

-----------------------------------------------------------------------------
(* Python scalars *)

None == [tag |-> "none", n |-> 0, s |-> <<>>]

PyInt(k) == [tag |-> "int", n |-> k, s |-> <<>>]

\* the float tenths / 10
PyFloatLit(tenths) == [tag |-> "float", n |-> tenths, s |-> <<>>]

PyStrLit(chars) == [tag |-> "str", n |-> 0, s |-> chars]

Digits == <<"0", "1", "2", "3", "4", "5", "6", "7", "8", "9">>

DigitSet == {Digits[i] : i \in 1..Len(Digits)}

DigitVal(c) == (CHOOSE i \in 1..Len(Digits) : Digits[i] = c) - 1

Abs(x) == IF x < 0 THEN -x ELSE x

\* str.isdigit(): non-empty and every character a digit
IsDigit(s) == Len(s) > 0 /\ \A i \in 1..Len(s) : s[i] \in DigitSet

RECURSIVE NatToStr(_)
NatToStr(k) ==
    IF k < 10 THEN <<Digits[k + 1]>>
    ELSE NatToStr(k \div 10) \o <<Digits[(k % 10) + 1]>>

RECURSIVE StrToNat(_)
StrToNat(s) ==
    IF Len(s) = 0 THEN 0
    ELSE 10 * StrToNat(SubSeq(s, 1, Len(s) - 1)) + DigitVal(s[Len(s)])

\* str(v): "12" for 12, "-3" for -3, "7.5" for 7.5, "12.0" for 12.0
Str(v) ==
    CASE v.tag = "str" -> v.s
      [] v.tag = "int" ->
            (IF v.n < 0 THEN <<"-">> ELSE <<>>) \o NatToStr(Abs(v.n))
      [] v.tag = "float" ->
            (IF v.n < 0 THEN <<"-">> ELSE <<>>) \o NatToStr(Abs(v.n) \div 10)
                \o <<".">> \o <<Digits[(Abs(v.n) % 10) + 1]>>
      [] OTHER -> <<"N", "o", "n", "e">>

\* the unsigned decimal literal s ("12", "7.5", "7.", ".5") in tenths
DecimalOk(s) ==
    LET dots == {i \in 1..Len(s) : s[i] = "."}
    IN  IF dots = {} THEN IsDigit(s)
        ELSE /\ Cardinality(dots) = 1
             /\ LET p == CHOOSE i \in dots : TRUE
                    ip == SubSeq(s, 1, p - 1)
                    fp == SubSeq(s, p + 1, Len(s))
                IN  /\ Len(ip) + Len(fp) > 0
                    /\ Len(ip) = 0 \/ IsDigit(ip)
                    /\ Len(fp) = 0 \/ (IsDigit(fp) /\ Len(fp) = 1)

DecimalTenths(s) ==
    LET dots == {i \in 1..Len(s) : s[i] = "."}
    IN  IF dots = {} THEN 10 * StrToNat(s)
        ELSE LET p == CHOOSE i \in dots : TRUE
             IN  10 * StrToNat(SubSeq(s, 1, p - 1))
                   + StrToNat(SubSeq(s, p + 1, Len(s)))

\* float(v) inside try/except: [ok, t], t the value in tenths.  A string
\* parses when it is an optionally signed decimal literal; None and any
\* other string raise, which the callers' bare except turns into a skip.
Float(v) ==
    CASE v.tag = "int" -> [ok |-> TRUE, t |-> 10 * v.n]
      [] v.tag = "float" -> [ok |-> TRUE, t |-> v.n]
      [] v.tag = "str" ->
            LET signed == Len(v.s) > 0 /\ v.s[1] \in {"-", "+"}
                body == IF signed THEN Tail(v.s) ELSE v.s
            IN  IF DecimalOk(body)
                THEN [ok |-> TRUE,
                      t |-> IF signed /\ v.s[1] = "-"
                            THEN 0 - DecimalTenths(body)
                            ELSE DecimalTenths(body)]
                ELSE [ok |-> FALSE, t |-> 0]
      [] OTHER -> [ok |-> FALSE, t |-> 0]

\* bool(v)
Truthy(v) ==
    CASE v.tag = "none" -> FALSE
      [] v.tag = "str" -> Len(v.s) > 0
      [] OTHER -> v.n # 0

\* isinstance(v, (int, float))
IsNumber(v) == v.tag \in {"int", "float"}

\* the number v in tenths
Tenths(v) == IF v.tag = "int" THEN 10 * v.n ELSE v.n

\* a == b on scalars (1 == 1.0, "1" != 1)
PyEq(a, b) ==
    IF IsNumber(a) /\ IsNumber(b) THEN Tenths(a) = Tenths(b) ELSE a = b

\* record.get(k) and record.get(k, default)
Get(record, k) == IF k \in DOMAIN record THEN record[k] ELSE None

GetOr(record, k, default) == IF k \in DOMAIN record THEN record[k] ELSE default

-----------------------------------------------------------------------------
(* Exact arithmetic *)

RECURSIVE Gcd(_, _)
Gcd(a, b) == IF b = 0 THEN a ELSE Gcd(b, a % b)

\* a / b in lowest terms, b # 0
Rat(a, b) ==
    LET g == Gcd(Abs(a), Abs(b))
        sg == IF b < 0 THEN -1 ELSE 1
    IN  [num |-> sg * (a \div g), den |-> sg * (b \div g)]

Zero == [num |-> 0, den |-> 1]

RatLess(x, y) == x.num * y.den < y.num * x.den

RECURSIVE SumSeq(_)
SumSeq(q) == IF Len(q) = 0 THEN 0 ELSE q[1] + SumSeq(Tail(q))

\* numpy.mean of a non-empty list of tenths
Mean(q) == Rat(SumSeq(q), 10 * Len(q))

\* q with its i-th element removed
Without(q, i) == SubSeq(q, 1, i - 1) \o SubSeq(q, i + 1, Len(q))

RECURSIVE Sorted(_)
Sorted(q) ==
    IF Len(q) = 0 THEN <<>>
    ELSE LET i == CHOOSE j \in 1..Len(q) : \A k \in 1..Len(q) : q[j] <= q[k]
         IN  <<q[i]>> \o Sorted(Without(q, i))

\* numpy.median of a non-empty list of tenths
Median(q) ==
    LET srt == Sorted(q)
        m == Len(q)
    IN  IF m % 2 = 1 THEN Rat(srt[(m + 1) \div 2], 10)
        ELSE Rat(srt[m \div 2] + srt[(m \div 2) + 1], 20)

\* int(x) of the float t / 10: truncation towards zero
IntOf(t) == IF t >= 0 THEN t \div 10 ELSE 0 - ((0 - t) \div 10)

\* the elements of q that satisfy the set s, in order
RECURSIVE SelectIdx(_, _)
SelectIdx(q, s) ==
    IF Len(q) = 0 THEN <<>>
    ELSE (IF q[1] \in s THEN <<q[1]>> ELSE <<>>) \o SelectIdx(Tail(q), s)

-----------------------------------------------------------------------------
(* Field names, literals and limits of the code *)

\* line 185: numeric_fields[:5]
TrendFieldCap == 5

\* line 198: values[:10]
TrendSampleLen == 10

\* line 244: 'recommended_range': (7, 9)
RecommendedLo == 7

RecommendedHi == 9

\* lines 278 and 306: >= 80, < 80
HighAdherence == 80

\* line 279: < 50
LowAdherence == 50

\* line 258: len(sleep_data) > 5
PatternMinRecords == 5

Unknown == PyStrLit(<<"u", "n", "k", "n", "o", "w", "n">>)

MsgNoData == "Nenhum dado disponível"

MsgNoDataResidence == "Nenhum dados disponível"

healthcare_fields ==
    <<"healthcare_visits", "emergency_visits", "hospitalizations",
      "specialist_visits", "primary_care_visits", "medication_changes">>

sleep_fields ==
    <<"sleep_quality", "sleep_duration", "sleep_disturbances",
      "bedtime", "wake_time", "sleep_efficiency">>

medication_fields ==
    <<"medication_adherence", "missed_doses", "medication_changes",
      "side_effects", "adherence_score", "medication_count">>

Range(q) == {q[i] : i \in 1..Len(q)}

-----------------------------------------------------------------------------
(* Grouping: a defaultdict(list) filled in one pass.  The mapping is the   *)
(* sequence of its entries in insertion order; an entry holds its key and  *)
(* the positions in self.data of the records appended to it (the list      *)
(* holds references to the records, which the positions stand for).        *)

RECURSIVE GroupLoop(_, _, _)
GroupLoop(keys, i, acc) ==
    IF i > Len(keys) THEN acc
    ELSE LET hit == {j \in 1..Len(acc) : PyEq(acc[j].key, keys[i])}
         IN  IF hit = {}
             THEN GroupLoop(keys, i + 1,
                            Append(acc, [key |-> keys[i], members |-> <<i>>]))
             ELSE LET j == CHOOSE x \in hit : TRUE
                  IN  GroupLoop(keys, i + 1,
                                [acc EXCEPT ![j].members = Append(@, i)])

\* the grouping with participant_data[key] = [record] in place of append
RECURSIVE OverwriteLoop(_, _, _)
OverwriteLoop(keys, i, acc) ==
    IF i > Len(keys) THEN acc
    ELSE LET hit == {j \in 1..Len(acc) : PyEq(acc[j].key, keys[i])}
         IN  IF hit = {}
             THEN OverwriteLoop(keys, i + 1,
                                Append(acc, [key |-> keys[i], members |-> <<i>>]))
             ELSE LET j == CHOOSE x \in hit : TRUE
                  IN  OverwriteLoop(keys, i + 1,
                                    [acc EXCEPT ![j].members = <<i>>])

GroupByOverwrite(keys) == OverwriteLoop(keys, 1, <<>>)

GroupBy(keys) == GroupLoop(keys, 1, <<>>)

\* the key with 'or' in place of the defaults of get(): an empty value is
\* passed over
ParticipantKeyNonEmpty(record) ==
    IF Truthy(Get(record, "participant_id")) THEN record["participant_id"]
    ELSE IF Truthy(Get(record, "record_id")) THEN record["record_id"]
    ELSE Unknown

\* line 25
ParticipantKey(record) ==
    GetOr(record, "participant_id", GetOr(record, "record_id", Unknown))

\* line 135
ResidenceKey(record) ==
    GetOr(record, "residence_type", GetOr(record, "location", Unknown))

\* lines 65, 87, 116: no 'unknown' default here
ParticipantRef(record) ==
    GetOr(record, "participant_id", Get(record, "record_id"))

\* the records of a group, in the order they were appended
RecordsOf(recs, group) == [i \in 1..Len(group.members) |-> recs[group.members[i]]]

-----------------------------------------------------------------------------
(* _get_date_range.  The field names of the model hold no "date", so the   *)
(* list of dates stays empty and the method returns its default.           *)

get_date_range(records) ==
    [start_date |-> None, end_date |-> None, duration_days |-> 0]

-----------------------------------------------------------------------------
(* _analyze_trends *)

\* lines 178-181: the keys that hold a number or a digit string somewhere
NumericFields(records) ==
    {k \in UNION {DOMAIN records[i] : i \in 1..Len(records)} :
        \E i \in 1..Len(records) :
            /\ k \in DOMAIN records[i]
            /\ \/ IsNumber(records[i][k])
               \/ records[i][k].tag = "str" /\ IsDigit(records[i][k].s)}

\* lines 183-185: list(set(numeric_fields))[:5].  A set of strings is
\* enumerated in hash order, which differs from process to process, so the
\* slice is some TrendFieldCap of the names when there are more.
Selections(names) ==
    IF Cardinality(names) <= TrendFieldCap THEN {names}
    ELSE {c \in SUBSET names : Cardinality(c) = TrendFieldCap}

\* lines 186-192: the values of one field, in tenths
RECURSIVE TrendValues(_, _)
TrendValues(records, field) ==
    IF Len(records) = 0 THEN <<>>
    ELSE LET r == records[1]
             keep == /\ field \in DOMAIN r
                     /\ Truthy(r[field])
                     /\ Float(r[field]).ok
         IN  (IF keep THEN <<Float(r[field]).t>> ELSE <<>>)
                 \o TrendValues(Tail(records), field)

Prefix(q, k) == SubSeq(q, 1, IF Len(q) < k THEN Len(q) ELSE k)

\* lines 195-199
TrendEntry(values) ==
    [trend |-> IF values[Len(values)] > values[1]
               THEN "increasing" ELSE "decreasing",
     change_percent |-> IF values[1] # 0
                        THEN Rat((values[Len(values)] - values[1]) * 100, values[1])
                        ELSE Zero,
     values |-> Prefix(values, TrendSampleLen)]

\* the trends dict as a function from field name to entry
analyze_trends(records, selected) ==
    LET kept == {f \in selected : Len(TrendValues(records, f)) > 1}
    IN  [f \in kept |-> TrendEntry(TrendValues(records, f))]

-----------------------------------------------------------------------------
(* analyze_longitudinal_data *)

Ok(doc) == [status |-> "ok", doc |-> doc]

Raised(what) == [status |-> "raised", doc |-> [error |-> what]]

NotCalled == [status |-> "none", doc |-> [error |-> "none"]]

KeysOf(recs, Key(_)) == [i \in 1..Len(recs) |-> Key(recs[i])]

\* one selection of trend fields per group
RECURSIVE Picks(_, _)
Picks(recs, gs) ==
    IF Len(gs) = 0 THEN {<<>>}
    ELSE {<<c>> \o rest :
            c \in Selections(NumericFields(RecordsOf(recs, gs[1]))),
            rest \in Picks(recs, Tail(gs))}

LongitudinalDoc(recs, gs, picks) ==
    [total_participants |-> Len(gs),
     participants |->
        [g \in 1..Len(gs) |->
            [id |-> gs[g].key,
             total_records |-> Len(gs[g].members),
             date_range |-> get_date_range(RecordsOf(recs, gs[g])),
             trends |-> analyze_trends(RecordsOf(recs, gs[g]), picks[g])]]]

analyze_longitudinal_data ==
    /\ call' = "analyze_longitudinal_data"
    /\ IF Len(data) = 0
       THEN /\ result' = Ok([message |-> MsgNoData, participants |-> <<>>])
            /\ groups' = <<>>
       ELSE LET gs == GroupBy(KeysOf(data, ParticipantKey))
            IN  /\ groups' = gs
                /\ \E picks \in Picks(data, gs) :
                       result' = Ok(LongitudinalDoc(data, gs, picks))
    /\ UNCHANGED <<data, processed_data>>

-----------------------------------------------------------------------------
(* analyze_healthcare_utilization *)

\* a Counter filled from a list: its entries [key, count] in insertion order
Counter(values) ==
    LET gs == GroupBy(values)
    IN  [i \in 1..Len(gs) |-> [key |-> gs[i].key, count |-> Len(gs[i].members)]]

\* a Counter over integers, as a function from the integer to its count
IntCounter(ints) ==
    [x \in Range(ints) |-> Cardinality({i \in 1..Len(ints) : ints[i] = x})]

\* line 56: the truthy values of one field, in record order
RECURSIVE FieldValues(_, _)
FieldValues(recs, field) ==
    IF Len(recs) = 0 THEN <<>>
    ELSE (IF Truthy(Get(recs[1], field)) THEN <<Get(recs[1], field)>> ELSE <<>>)
             \o FieldValues(Tail(recs), field)

\* line 60: the values whose str() is all digits, as floats (tenths)
RECURSIVE DigitValues(_)
DigitValues(values) ==
    IF Len(values) = 0 THEN <<>>
    ELSE (IF IsDigit(Str(values[1])) THEN <<Float(values[1]).t>> ELSE <<>>)
             \o DigitValues(Tail(values))

\* lines 58-62
UtilizationStat(values) ==
    [count |-> Len(values),
     average |-> IF Len(DigitValues(values)) > 0
                 THEN Mean(DigitValues(values)) ELSE Zero,
     distribution |-> Counter(values)]

\* lines 54-62: the stats dict, a function over the fields that have values
UtilizationStats(recs) ==
    [f \in {x \in Range(healthcare_fields) : Len(FieldValues(recs, x)) > 0}
        |-> UtilizationStat(FieldValues(recs, f))]

\* lines 203-211.  The sentence is kept as its two numbers; most_common is
\* the first field, in the order of healthcare_fields, with the top count.
summarize_utilization(stats) ==
    IF DOMAIN stats = {} THEN [text |-> "Nenhum dado de utilização disponível"]
    ELSE LET order == SelectIdx(healthcare_fields, DOMAIN stats)
             best == CHOOSE i \in 1..Len(order) :
                        /\ \A j \in 1..Len(order) :
                              stats[order[j]].count <= stats[order[i]].count
                        /\ \A j \in 1..(i - 1) :
                              stats[order[j]].count < stats[order[i]].count
         IN  [text |-> "Total de utilizações registradas. Mais comum",
              total_visits |-> SumSeq([i \in 1..Len(order) |-> stats[order[i]].count]),
              most_common |-> order[best]]

UtilizationDoc(recs) ==
    [total_participants |-> Len(GroupBy(KeysOf(recs, ParticipantRef))),
     utilization_stats |-> UtilizationStats(recs),
     summary |-> summarize_utilization(UtilizationStats(recs))]

analyze_healthcare_utilization ==
    /\ call' = "analyze_healthcare_utilization"
    /\ result' = IF Len(data) = 0 THEN Ok([message |-> MsgNoData])
                 ELSE Ok(UtilizationDoc(data))
    /\ groups' = <<>>
    /\ UNCHANGED <<data, processed_data>>

-----------------------------------------------------------------------------
(* Domain extraction shared by the sleep and the medication analysis *)

\* lines 82-87 and 111-116: the allow-listed fields the record holds, plus
\* participant_id; no entry when the record holds none of them
DomainRecord(record, fields) ==
    LET present == Range(fields) \cap DOMAIN record
    IN  [k \in present \cup {"participant_id"} |->
            IF k \in present THEN record[k] ELSE ParticipantRef(record)]

\* the extraction without the 'if sleep_record' test
RECURSIVE DomainDataAll(_, _)
DomainDataAll(recs, fields) ==
    IF Len(recs) = 0 THEN <<>>
    ELSE <<DomainRecord(recs[1], fields)>> \o DomainDataAll(Tail(recs), fields)

RECURSIVE DomainData(_, _)
DomainData(recs, fields) ==
    IF Len(recs) = 0 THEN <<>>
    ELSE (IF Range(fields) \cap DOMAIN recs[1] # {}
          THEN <<DomainRecord(recs[1], fields)>> ELSE <<>>)
             \o DomainData(Tail(recs), fields)

\* the float() of one field over the records that hold it, unparsable
\* values skipped (the try/except of lines 216-221, 234-239, 268-273)
RECURSIVE ParsedValues(_, _)
ParsedValues(recs, field) ==
    IF Len(recs) = 0 THEN <<>>
    ELSE (IF field \in DOMAIN recs[1] /\ Float(recs[1][field]).ok
          THEN <<Float(recs[1][field]).t>> ELSE <<>>)
             \o ParsedValues(Tail(recs), field)

-----------------------------------------------------------------------------
(* analyze_sleep_patterns *)

analyze_sleep_quality(sleep_data) ==
    LET quality_scores == ParsedValues(sleep_data, "sleep_quality")
    IN  IF Len(quality_scores) > 0
        THEN [average |-> Mean(quality_scores),
              median |-> Median(quality_scores),
              distribution |->
                  IntCounter([i \in 1..Len(quality_scores) |->
                                 IntOf(quality_scores[i])])]
        ELSE [average |-> Zero, median |-> Zero, distribution |-> <<>>]

\* the duration statistics with 7 < d < 9 in place of 7 <= d <= 9
analyze_sleep_duration_exclusive(sleep_data) ==
    LET durations == ParsedValues(sleep_data, "sleep_duration")
    IN  IF Len(durations) > 0
        THEN [average_hours |-> Mean(durations),
              recommended_range |-> <<RecommendedLo, RecommendedHi>>,
              within_range_percent |->
                  Rat(100 * Cardinality({i \in 1..Len(durations) :
                          /\ 10 * RecommendedLo < durations[i]
                          /\ durations[i] < 10 * RecommendedHi}),
                      Len(durations))]
        ELSE [average_hours |-> Zero,
              recommended_range |-> <<RecommendedLo, RecommendedHi>>,
              within_range_percent |-> Zero]

analyze_sleep_duration(sleep_data) ==
    LET durations == ParsedValues(sleep_data, "sleep_duration")
    IN  IF Len(durations) > 0
        THEN [average_hours |-> Mean(durations),
              recommended_range |-> <<RecommendedLo, RecommendedHi>>,
              within_range_percent |->
                  Rat(100 * Cardinality({i \in 1..Len(durations) :
                          /\ 10 * RecommendedLo <= durations[i]
                          /\ durations[i] <= 10 * RecommendedHi}),
                      Len(durations))]
        ELSE [average_hours |-> Zero,
              recommended_range |-> <<RecommendedLo, RecommendedHi>>,
              within_range_percent |-> Zero]

identify_sleep_patterns(sleep_data) ==
    [consistent_bedtime |-> Len(sleep_data) > PatternMinRecords,
     regular_wake_time |-> Len(sleep_data) > PatternMinRecords,
     adequate_duration |-> Len(sleep_data) > PatternMinRecords]

SleepDoc(recs) ==
    LET sleep_data == DomainData(recs, sleep_fields)
    IN  [total_sleep_records |-> Len(sleep_data),
         sleep_quality_stats |-> analyze_sleep_quality(sleep_data),
         sleep_duration_stats |-> analyze_sleep_duration(sleep_data),
         patterns |-> identify_sleep_patterns(sleep_data)]

analyze_sleep_patterns ==
    /\ call' = "analyze_sleep_patterns"
    /\ result' = IF Len(data) = 0 THEN Ok([message |-> MsgNoData])
                 ELSE Ok(SleepDoc(data))
    /\ groups' = <<>>
    /\ UNCHANGED <<data, processed_data>>

-----------------------------------------------------------------------------
(* analyze_medication_adherence *)

calculate_adherence_stats(adherence_data) ==
    LET adherence_scores == ParsedValues(adherence_data, "adherence_score")
        m == Len(adherence_scores)
    IN  IF m > 0
        THEN [average_adherence |-> Mean(adherence_scores),
              high_adherence_percent |->
                  Rat(100 * Cardinality({i \in 1..m :
                          adherence_scores[i] >= 10 * HighAdherence}), m),
              low_adherence_count |->
                  Cardinality({i \in 1..m :
                      adherence_scores[i] < 10 * LowAdherence})]
        ELSE [average_adherence |-> Zero, high_adherence_percent |-> Zero,
              low_adherence_count |-> 0]

\* v > 0, v < 80 between a value and an int: defined on numbers only; a
\* str or None operand raises TypeError
Comparable(v) == IsNumber(v)

\* line 287 raises when some record's missed_doses is not a number
RisksRaise(adherence_data) ==
    \E i \in 1..Len(adherence_data) :
        ~Comparable(GetOr(adherence_data[i], "missed_doses", PyInt(0)))

\* lines 285-295: the sentences, kept as their kind and their count
identify_adherence_risks(adherence_data) ==
    LET missed_doses_count ==
            Cardinality({i \in 1..Len(adherence_data) :
                Tenths(GetOr(adherence_data[i], "missed_doses", PyInt(0))) > 0})
        side_effects_count ==
            Cardinality({i \in 1..Len(adherence_data) :
                Truthy(Get(adherence_data[i], "side_effects"))})
    IN  (IF missed_doses_count > 0
         THEN <<[risk |-> "participantes com doses perdidas",
                 count |-> missed_doses_count]>>
         ELSE <<>>)
        \o (IF side_effects_count > 0
            THEN <<[risk |-> "participantes relataram efeitos colaterais",
                    count |-> side_effects_count]>>
            ELSE <<>>)

\* line 306 raises when some record's adherence_score is not a number
RecommendationsRaise(adherence_data) ==
    \E i \in 1..Len(adherence_data) :
        ~Comparable(GetOr(adherence_data[i], "adherence_score", PyInt(100)))

\* lines 299-310
generate_adherence_recommendations(adherence_data) ==
    LET low_adherence ==
            Cardinality({i \in 1..Len(adherence_data) :
                Tenths(GetOr(adherence_data[i], "adherence_score", PyInt(100)))
                    < 10 * HighAdherence})
    IN  <<[text |-> "Implementar lembretes de medicação", count |-> 0],
          [text |-> "Monitoramento regular da adesão", count |-> 0],
          [text |-> "Educação sobre importância do tratamento", count |-> 0]>>
        \o (IF Len(adherence_data) > 0 /\ low_adherence > 0
            THEN <<[text |-> "Foco especial em participantes com baixa adesão",
                    count |-> low_adherence]>>
            ELSE <<>>)

MedicationResult(recs) ==
    LET adherence_data == DomainData(recs, medication_fields)
    IN  IF RisksRaise(adherence_data) \/ RecommendationsRaise(adherence_data)
        THEN Raised("TypeError")
        ELSE Ok([total_medication_records |-> Len(adherence_data),
                 adherence_stats |-> calculate_adherence_stats(adherence_data),
                 risk_factors |-> identify_adherence_risks(adherence_data),
                 recommendations |->
                     generate_adherence_recommendations(adherence_data)])

analyze_medication_adherence ==
    /\ call' = "analyze_medication_adherence"
    /\ result' = IF Len(data) = 0 THEN Ok([message |-> MsgNoData])
                 ELSE MedicationResult(data)
    /\ groups' = <<>>
    /\ UNCHANGED <<data, processed_data>>

-----------------------------------------------------------------------------
(* analyze_residence_comparison *)

\* numpy.mean of a list that holds a str: the list becomes an array of
\* strings, whose sum raises TypeError
MeanRaises(values) == \E i \in 1..Len(values) : ~IsNumber(values[i])

NumberTenths(values) == [i \in 1..Len(values) |-> Tenths(values[i])]

\* lines 321-323
HealthScores(records) == FieldValues(records, "health_score")

calculate_residence_metrics(records) ==
    [health_score_avg |-> IF Len(HealthScores(records)) > 0
                          THEN Mean(NumberTenths(HealthScores(records)))
                          ELSE Zero,
     satisfaction_avg |-> Zero,
     activity_level_avg |-> Zero]

\* lines 329-336
analyze_residence_demographics(records) ==
    [average_age |-> IF Len(FieldValues(records, "age")) > 0
                     THEN Mean(NumberTenths(FieldValues(records, "age")))
                     ELSE Zero,
     gender_distribution |-> Counter(FieldValues(records, "gender")),
     total_participants |-> Len(records)]

\* lines 343-344: max() over the keys returns the first key, in the
\* mapping's insertion order, whose health_score_avg no other exceeds
BestResidence(comparison) ==
    CHOOSE i \in 1..Len(comparison) :
        /\ \A j \in 1..Len(comparison) :
              ~RatLess(comparison[i].health_metrics.health_score_avg,
                       comparison[j].health_metrics.health_score_avg)
        /\ \A j \in 1..(i - 1) :
              RatLess(comparison[j].health_metrics.health_score_avg,
                      comparison[i].health_metrics.health_score_avg)

\* lines 338-350: the two sentences, kept as what they name
generate_residence_insights(comparison) ==
    IF Len(comparison) > 1
    THEN <<[text |-> "Melhor performance de saúde",
            best_residence |-> comparison[BestResidence(comparison)].residence],
           [text |-> "participantes distribuídos entre residências",
            total_participants |->
                SumSeq([i \in 1..Len(comparison) |-> comparison[i].participant_count]),
            residences |-> Len(comparison)]>>
    ELSE <<>>

\* lines 138-144: the comparison dict, its entries in insertion order
Comparison(recs, gs) ==
    [g \in 1..Len(gs) |->
        [residence |-> gs[g].key,
         participant_count |-> Len(gs[g].members),
         health_metrics |-> calculate_residence_metrics(RecordsOf(recs, gs[g])),
         demographics |-> analyze_residence_demographics(RecordsOf(recs, gs[g]))]]

ResidenceRaises(recs, gs) ==
    \E g \in 1..Len(gs) :
        \/ MeanRaises(HealthScores(RecordsOf(recs, gs[g])))
        \/ MeanRaises(FieldValues(RecordsOf(recs, gs[g]), "age"))

ResidenceResult(recs, gs) ==
    IF ResidenceRaises(recs, gs) THEN Raised("TypeError")
    ELSE Ok([total_residences |-> Len(gs),
             comparison |-> Comparison(recs, gs),
             insights |-> generate_residence_insights(Comparison(recs, gs))])

analyze_residence_comparison ==
    /\ call' = "analyze_residence_comparison"
    /\ IF Len(data) = 0
       THEN /\ result' = Ok([message |-> MsgNoDataResidence])
            /\ groups' = <<>>
       ELSE LET gs == GroupBy(KeysOf(data, ResidenceKey))
            IN  /\ groups' = gs
                /\ result' = ResidenceResult(data, gs)
    /\ UNCHANGED <<data, processed_data>>

-----------------------------------------------------------------------------
(* The engine: construction and calls *)

\* __init__ (lines 13-15) has run: processed_data is a copy of data, no
\* analysis has been called
Constructed(inputs) ==
    /\ data \in inputs
    /\ processed_data = data
    /\ call = "none"
    /\ result = NotCalled
    /\ groups = <<>>

Next ==
    \/ analyze_longitudinal_data
    \/ analyze_healthcare_utilization
    \/ analyze_sleep_patterns
    \/ analyze_medication_adherence
    \/ analyze_residence_comparison

-----------------------------------------------------------------------------
(* Inputs.  A family of records gives each field a set of values, Absent   *)
(* standing for a record without the field; the engine is constructed over *)
(* any list of at most a bounded number of records of one family.          *)

Absent == [tag |-> "absent", n |-> 0, s |-> <<>>]

MakeRecord(f) == [k \in {x \in DOMAIN f : f[x] # Absent} |-> f[k]]

RecordsOver(fd) ==
    {MakeRecord(f) :
        f \in {h \in [DOMAIN fd -> UNION {fd[k] : k \in DOMAIN fd}] :
                  \A k \in DOMAIN fd : h[k] \in fd[k]}}

Lists(records, maxlen) == UNION {[1..m -> records] : m \in 0..maxlen}

Empty == PyStrLit(<<>>)

Abc == PyStrLit(<<"a", "b", "c">>)

MaxGroupRecs == 3

MaxSleepRecs == 3

MaxDurationRecs == 5

MaxUtilRecs == 3

MaxNumericRecs == 2

MaxTrendRecs == 3

MaxFieldRecs == 2

ParticipantRecords ==
    RecordsOver([participant_id |-> {Absent, Empty, PyStrLit(<<"P", "1">>)},
                 record_id |-> {Absent, Empty, PyStrLit(<<"R", "1">>)}])

ResidenceRecords ==
    RecordsOver([residence_type |-> {Absent, Empty, PyStrLit(<<"l", "a", "r">>)},
                 location |-> {Absent, Empty, PyStrLit(<<"P", "o", "r", "t", "o">>)}])

QualityRecords ==
    RecordsOver([sleep_quality |->
                     {Absent, PyStrLit(<<"6">>), PyStrLit(<<"7">>), PyStrLit(<<"8">>),
                      Abc, PyFloatLit(75)},
                 participant_id |-> {PyStrLit(<<"P", "1">>)}])

MixedSleepRecords ==
    RecordsOver([sleep_duration |-> {Absent, Abc, PyInt(8), PyFloatLit(95)},
                 bedtime |-> {Absent, PyStrLit(<<"2", "3", "h">>)}])

DurationRecords ==
    RecordsOver([sleep_duration |->
                     {PyInt(6), PyStrLit(<<"7">>), PyInt(8), PyFloatLit(90), PyInt(10)}])

UtilizationRecords ==
    RecordsOver([healthcare_visits |->
                     {Absent, PyStrLit(<<"1", "2">>), Abc, PyFloatLit(75), PyInt(3),
                      PyInt(0)},
                 emergency_visits |-> {Absent, PyStrLit(<<"1">>)}])

MedicationRecords ==
    RecordsOver([missed_doses |-> {Absent, PyInt(0), PyInt(2), PyStrLit(<<"2">>)},
                 adherence_score |->
                     {Absent, PyInt(90), PyInt(40), PyStrLit(<<"8", "5">>)},
                 side_effects |-> {Absent, PyStrLit(<<"d", "o", "r">>)}])

HealthRecords ==
    RecordsOver([residence_type |->
                     {Absent, PyStrLit(<<"l", "a", "r">>), PyStrLit(<<"c", "a", "s", "a">>)},
                 health_score |->
                     {Absent, PyInt(0), PyInt(6), PyInt(10), PyStrLit(<<"8", "0">>)},
                 age |-> {Absent, PyInt(70), PyStrLit(<<"7", "0">>)}])

TrendRecords ==
    RecordsOver([participant_id |-> {PyStrLit(<<"P", "1">>), PyStrLit(<<"P", "2">>)},
                 score |->
                     {Absent, PyInt(0), PyStrLit(<<"0">>), PyInt(5), PyInt(10),
                      Abc, PyFloatLit(75)}])

\* the order of the keys in every record of the input (the column order)
FieldOrder == <<"participant_id", "f1", "f2", "f3", "f4", "f5", "f6">>

FieldRecords ==
    RecordsOver([f1 |-> {Absent, PyInt(1)}, f2 |-> {Absent, PyInt(2)},
                 f3 |-> {Absent, PyStrLit(<<"3">>)}, f4 |-> {Absent, PyInt(4)},
                 f5 |-> {Absent, PyInt(5)}, f6 |-> {Absent, PyInt(6)}])

Init ==
    Constructed(Lists(ParticipantRecords, MaxGroupRecs)
                    \cup Lists(ResidenceRecords, MaxGroupRecs))

InitSleep ==
    Constructed(Lists(QualityRecords, MaxSleepRecs)
                    \cup Lists(MixedSleepRecords, MaxSleepRecs)
                    \cup Lists(DurationRecords, MaxDurationRecs))

InitUtilization == Constructed(Lists(UtilizationRecords, MaxUtilRecs))

InitNumeric ==
    Constructed(Lists(MedicationRecords, MaxNumericRecs)
                    \cup Lists(HealthRecords, MaxNumericRecs))

InitTrend == Constructed(Lists(TrendRecords, MaxTrendRecs))

InitFields == Constructed(Lists(FieldRecords, MaxFieldRecs))

Spec == Init /\ [][Next]_vars

SpecSleep == InitSleep /\ [][Next]_vars

SpecUtilization == InitUtilization /\ [][Next]_vars

SpecNumeric == InitNumeric /\ [][Next]_vars

SpecTrend == InitTrend /\ [][Next]_vars

SpecFields == InitFields /\ [][Next]_vars

-----------------------------------------------------------------------------
(* Properties *)

Longitudinal == call = "analyze_longitudinal_data" /\ Len(data) > 0

Utilization == call = "analyze_healthcare_utilization" /\ Len(data) > 0

Sleep == call = "analyze_sleep_patterns" /\ Len(data) > 0

Residence == call = "analyze_residence_comparison" /\ Len(data) > 0

\* the positions held by the groups, one pair <<group, slot>> per entry
Slots ==
    UNION {{<<g, j>> : j \in 1..Len(groups[g].members)} : g \in 1..Len(groups)}

GroupOf(i) ==
    CHOOSE g \in 1..Len(groups) :
        \E j \in 1..Len(groups[g].members) : groups[g].members[j] = i

CallKey(record) ==
    IF call = "analyze_longitudinal_data" THEN ParticipantKey(record)
    ELSE ResidenceKey(record)

\* C1: an analysis called on an engine constructed over an empty collection
\* returns a document whose only key is 'message', holding the one sentinel
\* text shared by the five analyses.
C1_EmptySentinel ==
    (call # "none" /\ Len(data) = 0) =>
        /\ result.status = "ok"
        /\ DOMAIN result.doc = {"message"}
        /\ result.doc.message = MsgNoData

\* C2: on a non-empty collection no analysis raises, whatever the values of
\* the fields it uses numerically: it returns its document.
C2_NeverRaises ==
    (call # "none" /\ Len(data) > 0) => result.status = "ok"

\* C3: the grouping of the longitudinal analysis and of the residence
\* comparison is an exact partition of the input: every record is in
\* exactly one group exactly once, no group is empty, the group sizes (and
\* the counts the document reports) sum to the number of records, records
\* are together exactly when their keys are equal, and the groups are
\* iterated in the order in which their key was first seen.
C3_Partition ==
    (Longitudinal \/ Residence) =>
        /\ \A i \in 1..Len(data) :
              Cardinality({x \in Slots : groups[x[1]].members[x[2]] = i}) = 1
        /\ \A x \in Slots : groups[x[1]].members[x[2]] \in 1..Len(data)
        /\ \A g \in 1..Len(groups) : Len(groups[g].members) > 0
        /\ SumSeq([g \in 1..Len(groups) |-> Len(groups[g].members)]) = Len(data)
        /\ \A i, k \in 1..Len(data) :
              (GroupOf(i) = GroupOf(k)) <=> PyEq(CallKey(data[i]), CallKey(data[k]))
        /\ \A g \in 1..Len(groups) : \A j \in 1..(Len(groups[g].members) - 1) :
              groups[g].members[j] < groups[g].members[j + 1]
        /\ \A g, h \in 1..Len(groups) :
              g < h => groups[g].members[1] < groups[h].members[1]
        /\ result.status = "ok"
        /\ Longitudinal =>
              /\ result.doc.total_participants = Len(groups)
              /\ Len(result.doc.participants) = Len(groups)
              /\ \A g \in 1..Len(groups) :
                    /\ result.doc.participants[g].id = groups[g].key
                    /\ result.doc.participants[g].total_records
                           = Len(groups[g].members)
              /\ SumSeq([g \in 1..Len(groups) |->
                            result.doc.participants[g].total_records]) = Len(data)
        /\ Residence =>
              /\ result.doc.total_residences = Len(groups)
              /\ Len(result.doc.comparison) = Len(groups)
              /\ \A g \in 1..Len(groups) :
                    /\ result.doc.comparison[g].residence = groups[g].key
                    /\ result.doc.comparison[g].participant_count
                           = Len(groups[g].members)
              /\ SumSeq([g \in 1..Len(groups) |->
                            result.doc.comparison[g].participant_count]) = Len(data)

\* two groups, the first of which was joined again after the second began
C3_Witness ==
    /\ Longitudinal
    /\ Len(groups) = 2
    /\ groups[1].members = <<1, 3>>
    /\ groups[2].members = <<2>>

\* the first candidate field of the call that holds a non-empty value
NonEmptyKey(record) ==
    LET first == IF call = "analyze_longitudinal_data"
                 THEN "participant_id" ELSE "residence_type"
        second == IF call = "analyze_longitudinal_data"
                  THEN "record_id" ELSE "location"
    IN  IF Truthy(Get(record, first)) THEN record[first]
        ELSE IF Truthy(Get(record, second)) THEN record[second]
        ELSE Unknown

\* the first candidate field of the call that the record holds
PresentKey(record) ==
    LET first == IF call = "analyze_longitudinal_data"
                 THEN "participant_id" ELSE "residence_type"
        second == IF call = "analyze_longitudinal_data"
                  THEN "record_id" ELSE "location"
    IN  IF first \in DOMAIN record THEN record[first]
        ELSE IF second \in DOMAIN record THEN record[second]
        ELSE Unknown

\* C4 as stated: every record is in the group keyed by the value of its
\* first candidate field that is non-empty, an empty candidate being passed
\* over, and in the group "unknown" when no candidate is non-empty.
C4_FirstNonEmptyKey ==
    (Longitudinal \/ Residence) =>
        \A i \in 1..Len(data) : groups[GroupOf(i)].key = NonEmptyKey(data[i])

\* C4: every record is in the group keyed by the value of its first
\* candidate field that is present, empty or not, and in the group
\* "unknown" when it holds neither candidate field.
C4_FirstPresentKey ==
    (Longitudinal \/ Residence) =>
        \A i \in 1..Len(data) : groups[GroupOf(i)].key = PresentKey(data[i])

\* a record with an empty participant_id and a non-empty record_id is
\* grouped under the empty string
C4_Witness ==
    /\ Longitudinal
    /\ \E i \in 1..Len(data) :
          /\ "participant_id" \in DOMAIN data[i]
          /\ data[i]["participant_id"] = Empty
          /\ Truthy(Get(data[i], "record_id"))
          /\ groups[GroupOf(i)].key = Empty

\* the raw values of a field over the records that hold it
RECURSIVE PresentValues(_, _)
PresentValues(recs, field) ==
    IF Len(recs) = 0 THEN <<>>
    ELSE (IF field \in DOMAIN recs[1] THEN <<recs[1][field]>> ELSE <<>>)
             \o PresentValues(Tail(recs), field)

\* C5: for every utilization field that is summarized, the average is the
\* mean of the values that are numbers or parse as numbers, whole or
\* fractional (0 when there is none), and the distribution counts every
\* raw value that is present.
C5_NumericSubset ==
    Utilization =>
        \A f \in Range(healthcare_fields) :
            LET raw == PresentValues(data, f)
                nums == ParsedValues(data, f)
                stats == result.doc.utilization_stats
            IN  f \in DOMAIN stats =>
                    /\ stats[f].average
                           = (IF Len(nums) > 0 THEN Mean(nums) ELSE Zero)
                    /\ SumSeq([i \in 1..Len(stats[f].distribution) |->
                                  stats[f].distribution[i].count]) = Len(raw)

\* C6: for every participant group and every trend field, with v the
\* field's numeric values in record order (a 0 included, stored as a number
\* or as a string): no entry when v has fewer than 2 values; otherwise the
\* direction is "increasing" exactly when the last exceeds the first, and
\* change_percent is (last - first) / first * 100, or 0 when the first is 0.
C6_TrendRule ==
    Longitudinal =>
        \A g \in 1..Len(groups) :
            LET recs == RecordsOf(data, groups[g])
                trends == result.doc.participants[g].trends
            IN  \A f \in NumericFields(recs) :
                    LET v == ParsedValues(recs, f)
                    IN  IF Len(v) < 2 THEN f \notin DOMAIN trends
                        ELSE /\ f \in DOMAIN trends
                             /\ trends[f].trend
                                    = (IF v[Len(v)] > v[1]
                                       THEN "increasing" ELSE "decreasing")
                             /\ trends[f].change_percent
                                    = (IF v[1] = 0 THEN Zero
                                       ELSE Rat((v[Len(v)] - v[1]) * 100, v[1]))

\* the health-score average of a group: the mean of its numeric health
\* scores, 0 when it has none
HealthAverage(g) ==
    LET v == ParsedValues(RecordsOf(data, groups[g]), "health_score")
    IN  IF Len(v) > 0 THEN Mean(v) ELSE Zero

\* C7: with two or more groups the residence comparison returns a first
\* insight naming the first group, in input order, whose health-score
\* average no group exceeds, and a second insight whose participant total
\* is the number of records and whose residence count is the number of
\* groups.
C7_BestResidence ==
    (Residence /\ Len(groups) >= 2) =>
        /\ result.status = "ok"
        /\ Len(result.doc.insights) = 2
        /\ \E b \in 1..Len(groups) :
              /\ result.doc.insights[1].best_residence = groups[b].key
              /\ \A h \in 1..Len(groups) : ~RatLess(HealthAverage(b), HealthAverage(h))
              /\ \A h \in 1..(b - 1) : RatLess(HealthAverage(h), HealthAverage(b))
        /\ result.doc.insights[2].total_participants = Len(data)
        /\ result.doc.insights[2].residences = Len(groups)

\* C8: within_range_percent is the number of valid sleep_duration values d
\* with 7 <= d <= 9 over the number of valid values, times 100; it is 0
\* when there is no valid value; it lies between 0 and 100.
C8_WithinRange ==
    Sleep =>
        LET valid == ParsedValues(data, "sleep_duration")
            inside == Cardinality({i \in 1..Len(valid) :
                          7 * 10 <= valid[i] /\ valid[i] <= 9 * 10})
            p == result.doc.sleep_duration_stats.within_range_percent
        IN  /\ result.status = "ok"
            /\ p.den > 0
            /\ Len(valid) = 0 => p = Zero
            /\ Len(valid) > 0 => p.num * Len(valid) = 100 * inside * p.den
            /\ 0 <= p.num /\ p.num <= 100 * p.den

\* durations 6, 7, 8, 9, 10 give 60
C8_Witness ==
    /\ Sleep
    /\ ParsedValues(data, "sleep_duration") = <<60, 70, 80, 90, 100>>
    /\ result.doc.sleep_duration_stats.within_range_percent = [num |-> 60, den |-> 1]

\* the k-th smallest of the values q
KthSmallest(q, k, x) ==
    /\ x \in Range(q)
    /\ Cardinality({i \in 1..Len(q) : q[i] < x}) < k
    /\ Cardinality({i \in 1..Len(q) : q[i] <= x}) >= k

\* C9: total_sleep_records is the number of records that hold at least one
\* of the six sleep fields; the quality average, median and distribution
\* per integer score are those of the sleep_quality values of these
\* records that are numbers, and the zero bundle when there is none.
C9_SleepContribution ==
    Sleep =>
        LET six == {"sleep_quality", "sleep_duration", "sleep_disturbances",
                    "bedtime", "wake_time", "sleep_efficiency"}
            contributing == {i \in 1..Len(data) : DOMAIN data[i] \cap six # {}}
            q == ParsedValues(data, "sleep_quality")
            m == Len(q)
            st == result.doc.sleep_quality_stats
        IN  /\ result.status = "ok"
            /\ result.doc.total_sleep_records = Cardinality(contributing)
            /\ m = 0 => /\ st.average = Zero
                        /\ st.median = Zero
                        /\ DOMAIN st.distribution = {}
            /\ m > 0 =>
                  /\ st.average.den > 0 /\ st.median.den > 0
                  /\ st.average.num * 10 * m = SumSeq(q) * st.average.den
                  /\ \E a, b \in Range(q) :
                        /\ KthSmallest(q, (m + 1) \div 2, a)
                        /\ KthSmallest(q, m + 1 - ((m + 1) \div 2), b)
                        /\ st.median.num * 20 = (a + b) * st.median.den
                  /\ DOMAIN st.distribution = {q[i] \div 10 : i \in 1..m}
                  /\ \A x \in DOMAIN st.distribution :
                        st.distribution[x]
                            = Cardinality({i \in 1..m : q[i] \div 10 = x})

\* three records with sleep_quality "6", "7", "8" and no other sleep field
C9_Witness ==
    /\ Sleep
    /\ Len(data) = 3
    /\ \A i \in 1..3 : DOMAIN data[i] = {"participant_id", "sleep_quality"}
    /\ data[1]["sleep_quality"] = PyStrLit(<<"6">>)
    /\ data[2]["sleep_quality"] = PyStrLit(<<"7">>)
    /\ data[3]["sleep_quality"] = PyStrLit(<<"8">>)
    /\ result.doc.total_sleep_records = 3
    /\ result.doc.sleep_quality_stats.average = [num |-> 7, den |-> 1]
    /\ result.doc.sleep_quality_stats.median = [num |-> 7, den |-> 1]
    /\ result.doc.sleep_quality_stats.distribution = (6 :> 1 @@ 7 :> 1 @@ 8 :> 1)

\* the keys of a record in their order
Items(record) == SelectIdx(FieldOrder, DOMAIN record)

\* the distinct names that hold a number or a digit string, in the order
\* in which a scan of the records, and of each record's keys, meets them
RECURSIVE Discovered(_, _)
Discovered(records, seen) ==
    IF Len(records) = 0 THEN seen
    ELSE LET new == SelectIdx(Items(records[1]),
                        {k \in DOMAIN records[1] :
                            /\ k \notin Range(seen)
                            /\ \/ IsNumber(records[1][k])
                               \/ records[1][k].tag = "str"
                                    /\ IsDigit(records[1][k].s)})
         IN  Discovered(Tail(records), seen \o new)

\* C10: the trends of a group cover the first 5 names discovered (those of
\* them with 2 values or more), and each entry's sample is the first 10
\* values of its field.
C10_FirstFiveFields ==
    Longitudinal =>
        \A g \in 1..Len(groups) :
            LET recs == RecordsOf(data, groups[g])
                first == Range(Prefix(Discovered(recs, <<>>), 5))
                trends == result.doc.participants[g].trends
            IN  /\ DOMAIN trends = {f \in first : Len(TrendValues(recs, f)) > 1}
                /\ \A f \in DOMAIN trends :
                      trends[f].values = Prefix(TrendValues(recs, f), 10)

=============================================================================
